---- MODULE Spec2Model ----
(***************************************************************************)
(* Model of the review-analysis pipeline of src/app.py:                    *)
(*   main -> fetch_app_store_reviews -> analyze_reviews_with_openai        *)
(*        -> result display.                                               *)
(* Strings are sequences of characters, so that strip(),                   *)
(* startswith(), endswith(), slicing and ' '.join() are computed as        *)
(* Python computes them.  The two hosted services are black boxes: the     *)
(* search response is fixed when a run starts, the generation outcome is   *)
(* chosen when the call is made.                                           *)
(***************************************************************************)
EXTENDS Integers, Sequences, FiniteSets, TLC

VARIABLES
    pc,              \* position of main() in the run
    openai_api_key,  \* TRUE iff main resolved an OpenAI key (sidebar or env)
    serpapi_key,     \* TRUE iff main resolved a SerpAPI key (sidebar or env)
    searchResponse,  \* what the search collaborator will answer in this run
    teams_reviews,   \* main: teams_reviews
    analysis_text,   \* analyze_reviews_with_openai: response content received
    prompt,          \* analyze_reviews_with_openai: prompt sent to the service
    teams_analysis,  \* main: teams_analysis
    teams_ratings,   \* main: teams_ratings
    searchCalls,     \* number of requests issued to the search service
    analyzeCalls,    \* number of invocations of analyze_reviews_with_openai
    generationCalls, \* number of requests issued to the generation service
    messages         \* messages shown to the operator (st.error/warning/success)

vars == <<pc, openai_api_key, serpapi_key, searchResponse, teams_reviews,
          analysis_text, prompt, teams_analysis, teams_ratings, searchCalls,
          analyzeCalls, generationCalls, messages>>

----------------------------------------------------------------------------
(* Bounds of the model *)

\* longest review list enumerated exhaustively from ReviewPool
MaxReviews == 3
\* longest patterned review list (must exceed PromptLimit usable texts)
MaxBig == 56

(* Program constants *)

\* review_texts[:50]
PromptLimit == 50
\* cleaned_text[7:]
FenceJsonLen == 7
\* cleaned_text[:-3]
FenceLen == 3

----------------------------------------------------------------------------
(* Python strings as character sequences *)

Min(a, b) == IF a < b THEN a ELSE b

IsSpace(c) == c \in {" ", "\n"}

RECURSIVE LStrip(_)
LStrip(s) == IF s # <<>> /\ IsSpace(Head(s)) THEN LStrip(Tail(s)) ELSE s

RECURSIVE RStrip(_)
RStrip(s) ==
    IF s # <<>> /\ IsSpace(s[Len(s)]) THEN RStrip(SubSeq(s, 1, Len(s) - 1)) ELSE s

\* str.strip()
Strip(s) == RStrip(LStrip(s))

\* str.startswith(p)
StartsWith(s, p) == Len(s) >= Len(p) /\ SubSeq(s, 1, Len(p)) = p

\* str.endswith(p)
EndsWith(s, p) == Len(s) >= Len(p) /\ SubSeq(s, Len(s) - Len(p) + 1, Len(s)) = p

\* s[n:]
DropFirst(s, n) == SubSeq(s, Min(n, Len(s)) + 1, Len(s))

\* s[:-n]  (n > 0)
DropLast(s, n) == SubSeq(s, 1, Len(s) - Min(n, Len(s)))

\* sep.join(parts): the parts in order, sep between neighbours
RECURSIVE Join(_, _)
Join(parts, sep) ==
    IF parts = <<>> THEN <<>>
    ELSE IF Len(parts) = 1 THEN parts[1]
    ELSE LET half == Len(parts) \div 2 IN
         Join(SubSeq(parts, 1, half), sep) \o sep
            \o Join(SubSeq(parts, half + 1, Len(parts)), sep)

\* the grave-accent character (U+0060), which a TLA+ string cannot hold
Tick == "tick"
\* '```json'
FenceJson == <<Tick, Tick, Tick, "j", "s", "o", "n">>
\* '```'
Fence == <<Tick, Tick, Tick>>

----------------------------------------------------------------------------
(* Review records returned by the search collaborator *)

TextAbsent == [kind |-> "absent", val |-> <<>>]
TextNull == [kind |-> "null", val |-> <<>>]
TextOf(s) == [kind |-> "str", val |-> s]
RatingAbsent == [kind |-> "absent", val |-> 0]
RatingNull == [kind |-> "null", val |-> 0]
RatingOf(n) == [kind |-> "int", val |-> n]

GreatApp == <<"G", "r", "e", "a", "t", " ", "a", "p", "p">>
CrashesALot == <<"C", "r", "a", "s", "h", "e", "s", " ", "a", " ", "l", "o", "t">>

ReviewPool ==
    { [text |-> TextOf(GreatApp),    rating |-> RatingOf(5)],
      [text |-> TextOf(<<>>),        rating |-> RatingOf(2)],
      [text |-> TextOf(CrashesALot), rating |-> RatingOf(1)],
      [text |-> TextAbsent,          rating |-> RatingAbsent],
      [text |-> TextNull,            rating |-> RatingNull],
      [text |-> TextOf(GreatApp),    rating |-> RatingOf(6)],
      [text |-> TextAbsent,          rating |-> RatingOf(4)] }

SmallLists == UNION { [1..n -> ReviewPool] : n \in 0..MaxReviews }

\* Review i of a patterned list: a one-symbol text unique to i, except that
\* every gap-th review has no usable text (empty, absent or null in turn).
PatternReview(i, gap) ==
    [ text |-> IF gap > 0 /\ i % gap = 0
               THEN (CASE i % 3 = 0 -> TextOf(<<>>)
                       [] i % 3 = 1 -> TextAbsent
                       [] OTHER     -> TextNull)
               ELSE TextOf(<<ToString(i)>>),
      rating |-> RatingOf(i % 7) ]

PatternList(n, gap) == [i \in 1..n |-> PatternReview(i, gap)]

BigLists == { PatternList(n, gap) : n \in 0..MaxBig, gap \in {0, 1, 7, 20} }

\* Outcomes of GoogleSearch(...).get_dict(): an exception, a dict without a
\* "reviews" key, or a dict whose "reviews" key holds a list.
SearchOutcomes(lists) ==
    { [kind |-> "raise", reviews |-> <<>>], [kind |-> "no_reviews_key", reviews |-> <<>>] }
    \cup { [kind |-> "ok", reviews |-> l] : l \in lists }

----------------------------------------------------------------------------
(* JSON values and the documents the generation service may reply with *)

Absent == [kind |-> "absent", val |-> 0]
Null == [kind |-> "null", val |-> 0]
Str(s) == [kind |-> "str", val |-> s]
\* a JSON number, in hundredths (0.5 is Num(50))
Num(n) == [kind |-> "num", val |-> n]
List(l) == [kind |-> "list", val |-> l]
\* a rating_distribution object: val[k] is the value of key "<k>_star"
Dist(d) == [kind |-> "dict", val |-> d]

\* Python None, and the non-dict values json.loads can return
NoneValue == [type |-> "NoneType"]
ListValue == [type |-> "list"]
IntValue == [type |-> "int"]
StrValue == [type |-> "str"]

\* {"overall_sentiment": "positive", "sentiment_score": 0.8, ...} with the
\* model's own rating tally
FullObject ==
    [ type |-> "dict",
      overall_sentiment |-> Str("positive"),
      sentiment_score |-> Num(80),
      key_themes |-> List(<<"user interface", "performance", "features">>),
      common_issues |-> List(<<"slow loading", "buggy", "missing features">>),
      strengths |-> List(<<"easy to use", "reliable", "good design">>),
      user_experience_feedback |-> Str("Users generally find the app intuitive"),
      feature_requests |-> List(<<"dark mode", "better search", "offline support">>),
      rating_distribution |-> Dist(<<9, 8, 7, 6, 5>>) ]

\* {}
EmptyObject ==
    [ type |-> "dict",
      overall_sentiment |-> Absent,
      sentiment_score |-> Absent,
      key_themes |-> Absent,
      common_issues |-> Absent,
      strengths |-> Absent,
      user_experience_feedback |-> Absent,
      feature_requests |-> Absent,
      rating_distribution |-> Absent ]

\* {"overall_sentiment": 4, "sentiment_score": "high", "key_themes": null}
OddObject ==
    [ EmptyObject EXCEPT !.overall_sentiment = Num(400),
                         !.sentiment_score = Str("high"),
                         !.key_themes = Null ]

\* The fixed object substituted when parsing fails
Fallback ==
    [ type |-> "dict",
      overall_sentiment |-> Str("neutral"),
      sentiment_score |-> Num(50),
      key_themes |-> List(<<"User feedback analysis completed">>),
      common_issues |-> List(<<"Review analysis available">>),
      strengths |-> List(<<"User insights gathered">>),
      user_experience_feedback |-> Str("Analysis completed successfully"),
      feature_requests |-> List(<<"User feedback processed">>),
      rating_distribution |-> Dist(<<0, 0, 0, 0, 0>>) ]

\* JSON texts.  "FULL" and "ODD" stand for the members of FullObject and
\* OddObject, written out.
DocFull == <<"{", "FULL", "}">>
DocEmpty == <<"{", "}">>
DocOdd == <<"{", "ODD", "}">>
DocArray == <<"[", "]">>
DocNull == <<"n", "u", "l", "l">>
DocNumber == <<"3">>
DocString == <<"\"", "o", "k", "\"">>
\* not JSON: truncated object, empty text, prose
DocTruncated == <<"{", "FULL">>
DocNothing == <<>>
DocProse == <<"S", "o", "r", "r", "y">>

ObjectDocs == {DocFull, DocEmpty, DocOdd}
Docs == ObjectDocs \cup {DocArray, DocNull, DocNumber, DocString,
                         DocTruncated, DocNothing, DocProse}

\* json.loads(s): leading and trailing whitespace is skipped, the rest must
\* be exactly one JSON value; anything else raises JSONDecodeError.
JsonLoads(s) ==
    LET t == Strip(s) IN
    CASE t = DocFull   -> [ok |-> TRUE, value |-> FullObject]
      [] t = DocEmpty  -> [ok |-> TRUE, value |-> EmptyObject]
      [] t = DocOdd    -> [ok |-> TRUE, value |-> OddObject]
      [] t = DocArray  -> [ok |-> TRUE, value |-> ListValue]
      [] t = DocNull   -> [ok |-> TRUE, value |-> NoneValue]
      [] t = DocNumber -> [ok |-> TRUE, value |-> IntValue]
      [] t = DocString -> [ok |-> TRUE, value |-> StrValue]
      [] OTHER         -> [ok |-> FALSE, value |-> NoneValue]

\* A reply text: doc, optionally after an opening fence, optionally before a
\* closing fence, with or without whitespace around the parts.
Wrap(open, doc, close, ws) ==
    LET sp == IF ws THEN <<" ">> ELSE <<>>
        nl == IF ws THEN <<"\n">> ELSE <<>>
    IN  sp \o open \o nl \o doc \o nl \o close \o nl

OpeningFences == {FenceJson, Fence}

ReplyTexts ==
    { Wrap(open, doc, close, ws) :
        open \in OpeningFences \cup {<<>>}, doc \in Docs,
        close \in {Fence, <<>>}, ws \in BOOLEAN }

\* Outcomes of openai_client.chat.completions.create(...): an exception, a
\* reply whose message content is None, a reply whose content is a text.
GenerationOutcomes ==
    { [kind |-> "raise", text |-> <<>>], [kind |-> "none", text |-> <<>>] }
    \cup { [kind |-> "text", text |-> t] : t \in ReplyTexts }

----------------------------------------------------------------------------
(* fetch_app_store_reviews *)

\* The reviews returned and the messages reported for a search outcome.
FetchAppStoreReviews(results) ==
    CASE results.kind = "raise" ->
            [reviews |-> <<>>, msgs |-> {"error: Error fetching reviews"}]
      [] results.kind = "no_reviews_key" ->
            [reviews |-> <<>>, msgs |-> {"error: No reviews found for app ID"}]
      [] OTHER ->
            [reviews |-> results.reviews, msgs |-> {}]

----------------------------------------------------------------------------
(* analyze_reviews_with_openai *)

\* "text" in review and review["text"]
HasText(review) == review.text.kind = "str" /\ review.text.val # <<>>

\* "rating" in review
HasRating(review) == review.rating.kind # "absent"

\* review_texts after the loop over reviews
RECURSIVE ReviewTexts(_)
ReviewTexts(reviews) ==
    IF reviews = <<>> THEN <<>>
    ELSE (IF HasText(Head(reviews)) THEN <<Head(reviews).text.val>> ELSE <<>>)
         \o ReviewTexts(Tail(reviews))

\* Variant: the rating is collected only inside the text branch
RECURSIVE RatingsOfTextReviews(_)
RatingsOfTextReviews(reviews) ==
    IF reviews = <<>> THEN <<>>
    ELSE (IF HasText(Head(reviews)) /\ HasRating(Head(reviews))
          THEN <<Head(reviews).rating>> ELSE <<>>)
         \o RatingsOfTextReviews(Tail(reviews))

\* ratings after the loop over reviews (a null rating is appended as it is)
RECURSIVE Ratings(_)
Ratings(reviews) ==
    IF reviews = <<>> THEN <<>>
    ELSE (IF HasRating(Head(reviews)) THEN <<Head(reviews).rating>> ELSE <<>>)
         \o Ratings(Tail(reviews))

\* Variant: the empty check is missing
AlwaysSomethingToAnalyze(review_texts) == FALSE

\* if not review_texts
NothingToAnalyze(review_texts) == review_texts = <<>>

NoPrompt == [sent |-> FALSE, count |-> 0, reviews |-> <<>>]

\* Variant: the texts are joined without the [:50] slice
BuildPromptUnsliced(review_texts) ==
    [ sent |-> TRUE,
      count |-> Len(review_texts),
      reviews |-> Join(review_texts, <<" ">>) ]

\* The variable parts of the prompt: len(review_texts) and
\* ' '.join(review_texts[:50])
BuildPrompt(review_texts) ==
    [ sent |-> TRUE,
      count |-> Len(review_texts),
      reviews |-> Join(SubSeq(review_texts, 1, Min(PromptLimit, Len(review_texts))),
                       <<" ">>) ]

\* Variant: only the three grave accents of either fence are removed
CleanResponseTicksOnly(analysis_text_) ==
    LET c1 == Strip(analysis_text_)
        c2 == IF StartsWith(c1, FenceJson) THEN DropFirst(c1, FenceLen) ELSE c1
        c3 == IF EndsWith(c2, Fence) THEN DropLast(c2, FenceLen) ELSE c2
    IN  Strip(c3)

\* cleaned_text after the fence removal
CleanResponse(analysis_text_) ==
    LET c1 == Strip(analysis_text_)
        c2 == IF StartsWith(c1, FenceJson) THEN DropFirst(c1, FenceJsonLen) ELSE c1
        c3 == IF EndsWith(c2, Fence) THEN DropLast(c2, FenceLen) ELSE c2
    IN  Strip(c3)

\* rating_counts after the loop over ratings, from counts
RECURSIVE CountRatings(_, _)
CountRatings(ratings, counts) ==
    IF ratings = <<>> THEN counts
    ELSE LET rating == Head(ratings) IN
         CountRatings(Tail(ratings),
                      IF rating.kind = "int" /\ rating.val \in DOMAIN counts
                      THEN [counts EXCEPT ![rating.val] = @ + 1]
                      ELSE counts)

RatingCounts(ratings) == CountRatings(ratings, <<0, 0, 0, 0, 0>>)

\* Variant: a parse failure is not replaced by the fallback object
ParseWithoutFallback(cleaned_text) ==
    LET parsed == JsonLoads(cleaned_text) IN
    [analysis |-> parsed.value, msgs |-> {}]

\* The value bound to analysis by the inner try/except
ParseOrFallback(cleaned_text) ==
    LET parsed == JsonLoads(cleaned_text) IN
    IF parsed.ok THEN [analysis |-> parsed.value, msgs |-> {}]
    ELSE [analysis |-> Fallback,
          msgs |-> {"warning: Analysis completed but some formatting issues were encountered"}]

\* Variant: the parsed or fallback rating_distribution is kept
KeepRatingDistribution(analysis, counts) ==
    IF analysis.type = "dict"
    THEN [raised |-> FALSE, analysis |-> analysis]
    ELSE [raised |-> TRUE, analysis |-> NoneValue]

\* analysis["rating_distribution"] = {...}; raises TypeError unless analysis
\* is a dict
SetRatingDistribution(analysis, counts) ==
    IF analysis.type = "dict"
    THEN [raised |-> FALSE, analysis |-> [analysis EXCEPT !.rating_distribution = Dist(counts)]]
    ELSE [raised |-> TRUE, analysis |-> NoneValue]

NoRatings == [none |-> TRUE, list |-> <<>>]

AnalysisError ==
    [analysis |-> NoneValue, ratings |-> NoRatings,
     msgs |-> {"error: Error analyzing reviews with OpenAI"}]

\* From the reply to the return value.  content None raises AttributeError
\* at .strip(), which only the outer handler catches.
NormalizeResponse(reply, ratings) ==
    IF reply.kind = "none" THEN AnalysisError
    ELSE LET p == ParseOrFallback(CleanResponse(reply.text))
             a == SetRatingDistribution(p.analysis, RatingCounts(ratings))
         IN  IF a.raised
             THEN [AnalysisError EXCEPT !.msgs = @ \cup p.msgs]
             ELSE [analysis |-> a.analysis,
                   ratings |-> [none |-> FALSE, list |-> ratings],
                   msgs |-> p.msgs]

\* The whole function, for the outcome the generation service would give.
AnalyzeReviewsWithOpenAI(reviews, outcome) ==
    LET review_texts == ReviewTexts(reviews)
        ratings == Ratings(reviews)
    IN  IF NothingToAnalyze(review_texts)
        THEN [analysis |-> NoneValue, ratings |-> NoRatings, msgs |-> {},
              called |-> FALSE, prompt |-> NoPrompt,
              analysis_text |-> [kind |-> "unset", text |-> <<>>]]
        ELSE IF outcome.kind = "raise"
        THEN [analysis |-> NoneValue, ratings |-> NoRatings,
              msgs |-> {"error: Error analyzing reviews with OpenAI"},
              called |-> TRUE, prompt |-> BuildPrompt(review_texts),
              analysis_text |-> [kind |-> "unset", text |-> <<>>]]
        ELSE LET n == NormalizeResponse(outcome, ratings) IN
             [analysis |-> n.analysis, ratings |-> n.ratings, msgs |-> n.msgs,
              called |-> TRUE, prompt |-> BuildPrompt(review_texts),
              analysis_text |-> outcome]

----------------------------------------------------------------------------
(* main: the steps that consume the result *)

NotIterable(v) == v.kind \in {"num", "null"}

\* Whether lines 293-400 raise: sum() over a null rating, .title() on a
\* non-string, a float format of a non-number, a loop over a non-iterable.
RenderRaises(analysis, ratings) ==
    \/ \E i \in DOMAIN ratings.list : ratings.list[i].kind # "int"
    \/ analysis.overall_sentiment.kind \notin {"absent", "str"}
    \/ analysis.sentiment_score.kind \notin {"absent", "num"}
    \/ NotIterable(analysis.key_themes)
    \/ NotIterable(analysis.common_issues)
    \/ NotIterable(analysis.strengths)
    \/ NotIterable(analysis.feature_requests)

----------------------------------------------------------------------------
(* The run *)

\* Variant: the empty result is not checked
AfterFetchUnchecked(reviews) == "fetched"

\* main, lines 268-270: if not teams_reviews
AfterFetch(reviews) == IF reviews = <<>> THEN "fetch_failed" ELSE "fetched"

\* Variant: the None result is not checked
AfterAnalysisUnchecked(analysis) == "analyzed"

\* main, lines 286-288: if not teams_analysis
AfterAnalysis(analysis) ==
    IF analysis.type = "NoneType" THEN "analysis_failed" ELSE "analyzed"

InitWith(lists) ==
    /\ pc = "idle"
    /\ openai_api_key \in BOOLEAN
    /\ serpapi_key \in BOOLEAN
    /\ searchResponse \in SearchOutcomes(lists)
    /\ teams_reviews = <<>>
    /\ analysis_text = [kind |-> "unset", text |-> <<>>]
    /\ prompt = NoPrompt
    /\ teams_analysis = NoneValue
    /\ teams_ratings = NoRatings
    /\ searchCalls = 0
    /\ analyzeCalls = 0
    /\ generationCalls = 0
    /\ messages = {}

Init == InitWith(SmallLists)

InitPrompt == InitWith(BigLists)

\* main, lines 245-253: a key is missing
CredentialMissing ==
    /\ pc = "idle"
    /\ ~(openai_api_key /\ serpapi_key)
    /\ messages' = messages \cup {"warning: Please enter your API keys"}
    /\ pc' = "halted"
    /\ UNCHANGED <<openai_api_key, serpapi_key, searchResponse, teams_reviews,
                   analysis_text, prompt, teams_analysis, teams_ratings,
                   searchCalls, analyzeCalls, generationCalls>>

\* main, lines 255-265: the operator pressed Run Analysis
RunAnalysis ==
    /\ pc = "idle"
    /\ openai_api_key /\ serpapi_key
    /\ pc' = "fetching"
    /\ UNCHANGED <<openai_api_key, serpapi_key, searchResponse, teams_reviews,
                   analysis_text, prompt, teams_analysis, teams_ratings,
                   searchCalls, analyzeCalls, generationCalls, messages>>

\* main, lines 267-270: the fetch and the check of its result
Fetch ==
    /\ pc = "fetching"
    /\ LET r == FetchAppStoreReviews(searchResponse) IN
       /\ teams_reviews' = r.reviews
       /\ messages' = messages \cup r.msgs \cup
                      (IF AfterFetch(r.reviews) = "fetch_failed"
                       THEN {"error: Failed to fetch Teams reviews"} ELSE {})
       /\ pc' = AfterFetch(r.reviews)
    /\ searchCalls' = searchCalls + 1
    /\ UNCHANGED <<openai_api_key, serpapi_key, searchResponse, analysis_text,
                   prompt, teams_analysis, teams_ratings, analyzeCalls,
                   generationCalls>>

\* main, lines 272-278: analyze_reviews_with_openai is invoked
BeginAnalysis ==
    /\ pc = "fetched"
    /\ pc' = "analyzing"
    /\ analyzeCalls' = analyzeCalls + 1
    /\ UNCHANGED <<openai_api_key, serpapi_key, searchResponse, teams_reviews,
                   analysis_text, prompt, teams_analysis, teams_ratings,
                   searchCalls, generationCalls, messages>>

\* main, lines 278-288: analyze_reviews_with_openai runs to its return, and
\* main checks what it returned
Analyze ==
    /\ pc = "analyzing"
    /\ \E outcome \in GenerationOutcomes :
         LET r == AnalyzeReviewsWithOpenAI(teams_reviews, outcome) IN
         /\ teams_analysis' = r.analysis
         /\ teams_ratings' = r.ratings
         /\ analysis_text' = r.analysis_text
         /\ prompt' = r.prompt
         /\ generationCalls' = generationCalls + (IF r.called THEN 1 ELSE 0)
         /\ messages' = messages \cup r.msgs \cup
                        (IF AfterAnalysis(r.analysis) = "analysis_failed"
                         THEN {"error: Failed to analyze reviews"} ELSE {})
         /\ pc' = AfterAnalysis(r.analysis)
    /\ UNCHANGED <<openai_api_key, serpapi_key, searchResponse, teams_reviews,
                   searchCalls, analyzeCalls>>

\* main, lines 290-291: the results are announced
ShowResults ==
    /\ pc = "analyzed"
    /\ messages' = messages \cup {"success: Analysis complete"}
    /\ pc' = "done"
    /\ UNCHANGED <<openai_api_key, serpapi_key, searchResponse, teams_reviews,
                   analysis_text, prompt, teams_analysis, teams_ratings,
                   searchCalls, analyzeCalls, generationCalls>>

\* main, lines 293-400: metrics, insight sections, chart, download
Render ==
    /\ pc = "done"
    /\ pc' = IF RenderRaises(teams_analysis, teams_ratings) THEN "crashed" ELSE "rendered"
    /\ UNCHANGED <<openai_api_key, serpapi_key, searchResponse, teams_reviews,
                   analysis_text, prompt, teams_analysis, teams_ratings,
                   searchCalls, analyzeCalls, generationCalls, messages>>

Next ==
    \/ CredentialMissing
    \/ RunAnalysis
    \/ Fetch
    \/ BeginAnalysis
    \/ Analyze
    \/ ShowResults
    \/ Render

Spec == Init /\ [][Next]_vars

SpecPrompt == InitPrompt /\ [][Next]_vars

----------------------------------------------------------------------------
(* Vocabulary of the properties *)

\* analyze_reviews_with_openai returned an AnalysisResult
Returned == teams_analysis.type = "dict"

\* the generation service replied (its call did not raise)
ReplyReceived == analysis_text.kind \in {"none", "text"}

\* number of fetched reviews that carry a rating equal to k
TrueCount(k) ==
    Cardinality({ i \in DOMAIN teams_reviews :
                    /\ teams_reviews[i].rating.kind = "int"
                    /\ teams_reviews[i].rating.val = k })

\* indexes of the fetched reviews with a present, non-empty text
UsableIdx ==
    { i \in DOMAIN teams_reviews :
        teams_reviews[i].text.kind = "str" /\ Len(teams_reviews[i].text.val) > 0 }

\* the reply parses to a JSON object, or does not parse at all
ReplyIsObjectOrUnparseable ==
    /\ analysis_text.kind = "text"
    /\ LET parsed == JsonLoads(CleanResponse(analysis_text.text))
       IN  ~parsed.ok \/ parsed.value.type = "dict"

FormatWarning == "warning: Analysis completed but some formatting issues were encountered"

----------------------------------------------------------------------------
(* C1: whenever analyze_reviews_with_openai returns an AnalysisResult, its
   rating_distribution maps k_star (k = 1..5) to the number of fetched
   reviews whose rating equals k, whatever the reply or the fallback held;
   the five counts sum to the number of reviews rated in 1..5; and a rating
   outside 1..5 is not counted and does not make the run fail: a reply that
   is a JSON object, or unparseable, always yields a result, and with
   integer ratings of any size and a reply of the requested value types the
   rendering does not raise. *)
C1_RatingDistribution ==
    /\ Returned =>
         /\ teams_analysis.rating_distribution.kind = "dict"
         /\ \A k \in 1..5 : teams_analysis.rating_distribution.val[k] = TrueCount(k)
         /\ LET d == teams_analysis.rating_distribution.val IN
            d[1] + d[2] + d[3] + d[4] + d[5] =
              Cardinality({ i \in DOMAIN teams_reviews :
                              /\ teams_reviews[i].rating.kind = "int"
                              /\ teams_reviews[i].rating.val \in 1..5 })
    /\ ReplyIsObjectOrUnparseable => Returned
    /\ pc = "crashed" =>
         \/ \E i \in DOMAIN teams_reviews : teams_reviews[i].rating.kind = "null"
         \/ analysis_text.kind = "text"
              /\ JsonLoads(CleanResponse(analysis_text.text)).value = OddObject

\* A result was returned for a reply carrying its own tally, from reviews
\* with a rating in range, a rating of 6 and a null rating.
C1_Witness ==
    /\ Returned
    /\ analysis_text.kind = "text" /\ analysis_text.text = DocFull
    /\ teams_analysis.rating_distribution # FullObject.rating_distribution
    /\ \E i \in DOMAIN teams_reviews : teams_reviews[i].rating = RatingOf(6)
    /\ \E i \in DOMAIN teams_reviews : teams_reviews[i].rating = RatingNull
    /\ \E i \in DOMAIN teams_reviews : teams_reviews[i].rating = RatingOf(5)

----------------------------------------------------------------------------
\* [{"text":"Great app","rating":5}, {"text":"","rating":2},
\*  {"text":"Crashes a lot","rating":1}]
ScenarioReviews ==
    << [text |-> TextOf(GreatApp),    rating |-> RatingOf(5)],
       [text |-> TextOf(<<>>),        rating |-> RatingOf(2)],
       [text |-> TextOf(CrashesALot), rating |-> RatingOf(1)] >>

(* C2, as claimed: for the scenario reviews the returned rating_distribution
   is {1_star:1, 2_star:1, 3_star:0, 4_star:0, 5_star:0}. *)
C2_ScenarioAsClaimed ==
    (teams_reviews = ScenarioReviews /\ Returned)
        => teams_analysis.rating_distribution = Dist(<<1, 1, 0, 0, 0>>)

(* C2, amended: for the scenario reviews and any reply, every AnalysisResult
   returned has rating_distribution {1_star:1, 2_star:1, 3_star:0,
   4_star:0, 5_star:1}: the 5-star review is counted. *)
C2_ScenarioAmended ==
    (teams_reviews = ScenarioReviews /\ Returned)
        => teams_analysis.rating_distribution = Dist(<<1, 1, 0, 0, 1>>)

C2_Witness ==
    /\ teams_reviews = ScenarioReviews
    /\ Returned
    /\ pc = "done"

----------------------------------------------------------------------------
\* what the Normalizer returns for the reply consisting of doc alone
NormalizedUnwrapped(doc) ==
    NormalizeResponse([kind |-> "text", text |-> doc], Ratings(teams_reviews)).analysis

FencedReply(open, doc, ws) == [kind |-> "text", text |-> Wrap(open, doc, Fence, ws)]

(* C3, as claimed: a well-formed JSON object wrapped in an opening fence
   (of either form) and a closing fence, with or without whitespace
   around them, is normalized to the same AnalysisResult as the object
   unwrapped, without falling back. *)
C3_AnyFenceAsClaimed ==
    \A open \in OpeningFences, doc \in ObjectDocs, ws \in BOOLEAN :
        analysis_text = FencedReply(open, doc, ws)
            => /\ Returned
               /\ teams_analysis = NormalizedUnwrapped(doc)
               /\ FormatWarning \notin messages

(* C3, amended: a well-formed JSON object wrapped in an opening ```json
   fence and a closing ``` fence, with or without whitespace around them,
   is normalized to the same AnalysisResult as the object unwrapped,
   without falling back. *)
C3_JsonFenceStripped ==
    \A doc \in ObjectDocs, ws \in BOOLEAN :
        analysis_text = FencedReply(FenceJson, doc, ws)
            => /\ Returned
               /\ teams_analysis = NormalizedUnwrapped(doc)
               /\ teams_analysis.overall_sentiment # Fallback.overall_sentiment
               /\ FormatWarning \notin messages

C3_Witness ==
    /\ analysis_text = FencedReply(FenceJson, DocFull, TRUE)
    /\ teams_analysis.overall_sentiment = Str("positive")
    /\ pc = "done"

----------------------------------------------------------------------------
\* the reply is a text that fails JSON parsing in the Normalizer
ReplyFailsParsing ==
    /\ analysis_text.kind = "text"
    /\ ~JsonLoads(CleanResponse(analysis_text.text)).ok

(* C4: for a reply text that fails JSON parsing, the Normalizer returns the
   fixed fallback object (neutral, 0.5, the placeholder lists) with
   rating_distribution recomputed from the ratings, a warning is shown, no
   error is reported, and the run goes on to done. *)
C4_FallbackOnParseFailure ==
    ReplyFailsParsing =>
        /\ teams_analysis =
             [Fallback EXCEPT !.rating_distribution = Dist([k \in 1..5 |-> TrueCount(k)])]
        /\ teams_analysis.overall_sentiment = Str("neutral")
        /\ teams_analysis.sentiment_score = Num(50)
        /\ ~teams_ratings.none
        /\ FormatWarning \in messages
        /\ "error: Error analyzing reviews with OpenAI" \notin messages
        /\ "error: Failed to analyze reviews" \notin messages
        /\ pc \in {"analyzed", "done", "rendered", "crashed"}
        /\ pc = "analyzed" => ENABLED ShowResults

\* a truncated JSON reply, with a rating to count, after the run reached done
C4_Witness ==
    /\ analysis_text = [kind |-> "text", text |-> DocTruncated]
    /\ pc = "done"
    /\ TrueCount(5) > 0

----------------------------------------------------------------------------
\* The stage of the run a position of main belongs to: a run halted for a
\* missing key never left idle, and the rendering follows done.
Stage(p) ==
    CASE p = "halted" -> "idle"
      [] p \in {"rendered", "crashed"} -> "done"
      [] OTHER -> p

\* idle -> fetching -> fetched|fetch_failed -> analyzing ->
\* analyzed|analysis_failed -> done; the normalization runs inside the call
\* that ends analyzing.
RunOrder ==
    { <<"idle", "fetching">>, <<"fetching", "fetched">>, <<"fetching", "fetch_failed">>,
      <<"fetched", "analyzing">>, <<"analyzing", "analyzed">>,
      <<"analyzing", "analysis_failed">>, <<"analyzed", "done">> }

Failed == {"fetch_failed", "analysis_failed"}

C5_Step ==
    /\ Stage(pc') # Stage(pc) => <<Stage(pc), Stage(pc')>> \in RunOrder
    /\ pc \notin Failed
    /\ generationCalls' # generationCalls =>
         /\ pc = "analyzing" /\ generationCalls = 0
         /\ searchCalls = 1 /\ teams_reviews # <<>>
    /\ searchCalls' # searchCalls => pc = "fetching" /\ searchCalls = 0

C5_State ==
    /\ Stage(pc) = "done" => Returned
    /\ pc = "fetch_failed" => "error: Failed to fetch Teams reviews" \in messages
    /\ pc = "analysis_failed" => "error: Failed to analyze reviews" \in messages
    /\ pc \in Failed => "success: Analysis complete" \notin messages
    /\ searchCalls <= 1 /\ generationCalls <= 1 /\ analyzeCalls <= 1

(* C5: every run moves through idle, fetching, fetched or fetch_failed,
   analyzing, analyzed or analysis_failed, done, in this order; the
   generation service is called once at most and only after a non-empty
   fetch; done is reached only with a non-None analysis; a failed state is
   never left, makes no further call, never reaches done, and has an error
   message shown. *)
C5_RunOrder == []C5_State /\ [][C5_Step]_vars

\* the generation call was made, failed, and the run ended in analysis_failed
C5_Witness ==
    /\ pc = "analysis_failed"
    /\ searchCalls = 1 /\ generationCalls = 1
    /\ "error: Failed to analyze reviews" \in messages

----------------------------------------------------------------------------
(* C6: when the search response has no reviews key, or the search call
   raises, fetch_app_store_reviews returns an empty sequence after
   reporting an error, nothing propagates, and the run halts in
   fetch_failed without analyze_reviews_with_openai or the generation
   service being invoked. *)
C6_FetchFailureHalts ==
    (searchCalls = 1 /\ searchResponse.kind \in {"raise", "no_reviews_key"}) =>
        /\ teams_reviews = <<>>
        /\ searchResponse.kind = "raise" => "error: Error fetching reviews" \in messages
        /\ searchResponse.kind = "no_reviews_key" =>
             "error: No reviews found for app ID" \in messages
        /\ pc = "fetch_failed"
        /\ analyzeCalls = 0 /\ generationCalls = 0 /\ ~prompt.sent

C6_Witness ==
    /\ searchCalls = 1
    /\ searchResponse.kind = "no_reviews_key"
    /\ pc = "fetch_failed"

----------------------------------------------------------------------------
(* C7: when no fetched review has a present, non-empty text,
   analyze_reviews_with_openai returns (None, None) and issues no request
   to the generation service, however many reviews carry ratings. *)
C7_NoTextNoCall ==
    (analyzeCalls = 1 /\ pc # "analyzing" /\ UsableIdx = {}) =>
        /\ teams_analysis.type = "NoneType"
        /\ teams_ratings.none
        /\ generationCalls = 0
        /\ ~prompt.sent
        /\ pc = "analysis_failed"

\* two reviews with ratings, texts empty or null
C7_Witness ==
    /\ analyzeCalls = 1 /\ pc = "analysis_failed"
    /\ UsableIdx = {}
    /\ \E i, j \in DOMAIN teams_reviews :
         /\ teams_reviews[i] = [text |-> TextOf(<<>>), rating |-> RatingOf(2)]
         /\ teams_reviews[j] = [text |-> TextNull, rating |-> RatingNull]

----------------------------------------------------------------------------
(* C8, as claimed: no exception escapes the run as an unhandled fault, and
   every failed run has a message shown. *)
C8_NoUnhandledFault ==
    /\ pc # "crashed"
    /\ pc \in Failed => \E m \in messages : m \in { "error: Failed to fetch Teams reviews",
                                                     "error: Failed to analyze reviews" }

----------------------------------------------------------------------------
\* the texts of the first room reviews that have a present, non-empty text:
\* the k-th is the text of the usable review with k usable reviews up to it
FirstUsableTexts(room) ==
    LET usable == UsableIdx
        upTo == [i \in usable |-> Cardinality({ j \in usable : j <= i })]
    IN  [ k \in 1..Min(room, Cardinality(usable)) |->
            teams_reviews[CHOOSE i \in usable : upTo[i] = k].text.val ]

Occurs(c, s) == \E p \in DOMAIN s : s[p] = c

LastUsable == LET usable == UsableIdx IN CHOOSE i \in usable : \A j \in usable : j <= i

(* C9: the prompt sent embeds exactly the texts of the first min(50, n)
   reviews with a present, non-empty text, in fetch order, separated by
   single spaces; nothing of a review without text, and nothing of the
   51st usable review onward. *)
C9_PromptEmbedsFirstFifty ==
    prompt.sent =>
        LET ft == FirstUsableTexts(50) IN
        /\ Len(ft) = Min(50, Cardinality(UsableIdx))
        /\ prompt.reviews = Join(ft, <<" ">>)
        /\ (\A k \in 1..Len(ft) : Len(ft[k]) = 1) =>
             /\ Len(prompt.reviews) = 2 * Len(ft) - 1
             /\ \A k \in 1..Len(ft) :
                  /\ prompt.reviews[2 * k - 1] = ft[k][1]
                  /\ k < Len(ft) => prompt.reviews[2 * k] = " "
        /\ Cardinality(UsableIdx) > 50 =>
             ~Occurs(teams_reviews[LastUsable].text.val[1], prompt.reviews)

\* more than 50 usable texts, with reviews without text among the first 50
C9_Witness ==
    /\ prompt.sent
    /\ Cardinality(UsableIdx) > 50
    /\ \E i \in 1..50 : i \notin UsableIdx
    /\ Occurs(ToString(1), prompt.reviews)

----------------------------------------------------------------------------
(* C10, as claimed: whenever the generation call returns a reply, whatever
   its content, a non-None AnalysisResult results and the run does not end
   in analysis_failed; analysis_failed is reached only when there was no
   usable review text or the generation call raised. *)
C10_ReplyAlwaysNormalized ==
    /\ ReplyReceived => Returned /\ pc # "analysis_failed"
    /\ pc = "analysis_failed" => UsableIdx = {} \/ ~ReplyReceived

====
